---- MODULE Spec2Model ----
(***************************************************************************)
(* A model of airfield-timezones: the bookmark and page-tree navigation,   *)
(* the per-page content stream interpreter, the base-encoding decoder, the *)
(* line reconstruction and the offset normalisation / time-zone matching.  *)
(*                                                                         *)
(* A Rust String is a sequence of characters; a character is a one-symbol  *)
(* TLA+ string, the en dash U+2013 being written EnDash.  An Option is a   *)
(* record [some, val]; a computation that can panic returns [ok, val].     *)
(***************************************************************************)
EXTENDS Integers, Sequences, FiniteSets, TLC

VARIABLES
    \* normalize_offset / normalize_reverse_offset applied to one capture
    nText, nForm, nResult,
    \* one matching line: its captures, the configured definitions in
    \* iteration order, and what the line handler computed
    mCaps, mTzs, mResult,
    \* get_top_level_bookmarks: the catalog's outline list, the node the loop
    \* is at, the bookmarks pushed so far, and where the function stands
    outline, current_outline, ret, oPc,
    \* get_page_references: the page tree, the frames of the recursion (the
    \* tree node, the kid the loop is at, the depth left), the references
    \* pushed so far, and where the function stands
    page_tree, stack, page_refs, pPc,
    \* font_decode: the active font (an Option), the operand bytes and the
    \* value returned
    dFont, dText, dResult,
    \* main, for one document: the document, where main stands and why it
    \* panicked, the page loop's bounds, the interpreter's state of the
    \* current page, and the records printed (each with its page and line)
    doc, pc, fatal, page_index, page_after_directory,
    text_matrix, current_font, coordinates_to_text, output,
    \* history: the page indices the loop body ran for, the fragments
    \* appended to the accumulator in operator order, the latest operator,
    \* whether the operators stand between a begin-text and an end-text
    interpreted, drawn, last_op, in_text_block

normVars == <<nText, nForm, nResult>>
matchVars == <<mCaps, mTzs, mResult>>
outlineVars == <<outline, current_outline, ret, oPc>>
pagesVars == <<page_tree, stack, page_refs, pPc>>
decodeVars == <<dFont, dText, dResult>>
pageVars == <<text_matrix, current_font, coordinates_to_text>>
docVars == <<doc, pc, fatal, page_index, page_after_directory, pageVars, output,
             interpreted, drawn, last_op, in_text_block>>
otherVars == <<normVars, matchVars, outlineVars, pagesVars, decodeVars>>

vars == <<normVars, matchVars, outlineVars, pagesVars, decodeVars, docVars>>

-----------------------------------------------------------------------------
(* Options and results *)

None == [some |-> FALSE, val |-> 0]
NoneText == [some |-> FALSE, val |-> <<>>]
NoneRegex == [some |-> FALSE, val |-> {}]
NoneName == [some |-> FALSE, val |-> ""]
Some(v) == [some |-> TRUE, val |-> v]

Panicked == [ok |-> FALSE, val |-> 0]
Ok(v) == [ok |-> TRUE, val |-> v]

Pending == [done |-> FALSE]

-----------------------------------------------------------------------------
(* Bounds *)

\* longest digit string handed to the normalisers
MaxDigits == 3
\* largest offset magnitude in the captures of a matched line
MaxMagnitude == 13
\* most time-zone definitions in the configured table
MaxDefs == 2

-----------------------------------------------------------------------------
(* Characters *)

EnDash == "u2013"
Digits == {"0", "1", "2", "3", "4", "5", "6", "7", "8", "9"}

DigitVal(c) ==
    CASE c = "0" -> 0 [] c = "1" -> 1 [] c = "2" -> 2 [] c = "3" -> 3
      [] c = "4" -> 4 [] c = "5" -> 5 [] c = "6" -> 6 [] c = "7" -> 7
      [] c = "8" -> 8 [] c = "9" -> 9

I8Min == -128
I8Max == 127

-----------------------------------------------------------------------------
(* str::parse::<i8>(): an optional sign, then one or more decimal digits,  *)
(* accumulated with checked arithmetic; anything else is an Err.           *)

RECURSIVE ParseDigits(_, _, _, _)
ParseDigits(s, i, acc, positive) ==
    IF i > Len(s) THEN Ok(acc)
    ELSE IF s[i] \notin Digits THEN Panicked
    ELSE LET next == IF positive THEN acc * 10 + DigitVal(s[i])
                                 ELSE acc * 10 - DigitVal(s[i])
         IN  IF next > I8Max \/ next < I8Min THEN Panicked
             ELSE ParseDigits(s, i + 1, next, positive)

ParseI8(s) ==
    IF Len(s) = 0 THEN Panicked
    ELSE IF s[1] \in {"+", "-"} /\ Len(s) = 1 THEN Panicked
    ELSE IF s[1] = "+" THEN ParseDigits(s, 2, 0, TRUE)
    ELSE IF s[1] = "-" THEN ParseDigits(s, 2, 0, FALSE)
    ELSE ParseDigits(s, 1, 0, TRUE)

\* String::replace('\u{2013}', "-")
ReplaceEnDash(s) == [i \in 1..Len(s) |-> IF s[i] = EnDash THEN "-" ELSE s[i]]

\* the normaliser with the en dash left in place
normalize_offset_keep_dash(offset) ==
    LET mod_offset == offset
        stripped == IF Len(mod_offset) > 0 /\ mod_offset[1] \in {"+", " "}
                    THEN Tail(mod_offset) ELSE mod_offset
    IN  ParseI8(stripped)

normalize_offset(offset) ==
    LET mod_offset == ReplaceEnDash(offset)
        stripped == IF Len(mod_offset) > 0 /\ mod_offset[1] \in {"+", " "}
                    THEN Tail(mod_offset) ELSE mod_offset
    IN  ParseI8(stripped)

\* "12-" -> "-12": the last character first, then the others
normalize_reverse_offset(offset) ==
    IF Len(offset) = 0 THEN Panicked
    ELSE LET n == Len(offset)
             regular_offset == <<offset[n]>> \o SubSeq(offset, 1, n - 1)
         IN  normalize_offset(regular_offset)

-----------------------------------------------------------------------------
(* The texts the capture groups can hold *)

DigitStrings(maxLen) == UNION {[1..k -> Digits] : k \in 1..maxLen}

\* utcdst: an optional sign (-, +, en dash) or space, then digits; utc is
\* the same with the sign required and no space
NormalPrefixes == {<<>>, <<"-">>, <<"+">>, <<" ">>, <<EnDash>>}
\* dstutc: digits, then a sign
ReverseSuffixes == {<<"-">>, <<"+">>, <<EnDash>>}

NormalTexts(maxLen) == {p \o d : p \in NormalPrefixes, d \in DigitStrings(maxLen)}
ReverseTexts(maxLen) == {d \o s : d \in DigitStrings(maxLen), s \in ReverseSuffixes}

-----------------------------------------------------------------------------
(* Specification SpecNorm: one capture text, normalised once *)

InitNorm ==
    /\ \/ nForm = "normal" /\ nText \in NormalTexts(MaxDigits)
       \/ nForm = "reverse" /\ nText \in ReverseTexts(MaxDigits)
    /\ nResult = Pending

NormalizeOffset ==
    /\ nForm = "normal"
    /\ ~nResult.done
    /\ nResult' = [done |-> TRUE, res |-> normalize_offset(nText)]
    /\ UNCHANGED <<nText, nForm, matchVars, outlineVars, pagesVars, decodeVars, docVars>>

NormalizeReverseOffset ==
    /\ nForm = "reverse"
    /\ ~nResult.done
    /\ nResult' = [done |-> TRUE, res |-> normalize_reverse_offset(nText)]
    /\ UNCHANGED <<nText, nForm, matchVars, outlineVars, pagesVars, decodeVars, docVars>>

-----------------------------------------------------------------------------
(* One line that matched ICAO_AND_UTC (main.rs, the body of `if let       *)
(* Some(caps)`).  caps holds the texts of the groups icao, utc, utcdst and *)
(* dstutc; the alternation of the pattern fills at most one of the last    *)
(* two.  A SerializableRegex is modelled by the set of codes it matches.   *)

is_match(regex, icao) == icao \in regex

\* the correction applied to every parsed daylight offset, whatever the
\* standard offset
correct_always(offset, doff) == IF doff > 2 THEN -doff ELSE doff

\* handle typographical error "UTC-5( 4DT)"
correct_daylight(offset, doff) == IF offset < -2 /\ doff > 2 THEN -doff ELSE doff

\* caps.name("utcdst").map(normalize).map(correct)
\*     .or_else(|| caps.name("dstutc").map(normalize_reverse)),
\* as a result whose value is the Option<i8>
dst_offset_of(caps, offset) ==
    IF caps.utcdst.some
    THEN LET d == normalize_offset(caps.utcdst.val)
         IN  IF d.ok THEN Ok(Some(correct_daylight(offset, d.val))) ELSE Panicked
    ELSE IF caps.dstutc.some
    THEN LET d == normalize_reverse_offset(caps.dstutc.val)
         IN  IF d.ok THEN Ok(Some(d.val)) ELSE Panicked
    ELSE Ok(None)

\* a definition is taken on its offsets alone
qualifies_ignoring_icao(timezone, icao, offset, dst_offset) ==
    offset = timezone.utc_standard /\ dst_offset = timezone.utc_daylight

\* one turn of the loop over name_to_timezone.values(): whether the
\* definition is taken
qualifies(timezone, icao, offset, dst_offset) ==
    /\ timezone.icao_match.some => is_match(timezone.icao_match.val, icao)
    /\ offset = timezone.utc_standard
    /\ dst_offset = timezone.utc_daylight

RECURSIVE match_timezone(_, _, _, _, _)
match_timezone(tzs, i, icao, offset, dst_offset) ==
    IF i > Len(tzs) THEN NoneName
    ELSE IF qualifies(tzs[i], icao, offset, dst_offset) THEN Some(tzs[i].iana)
    ELSE match_timezone(tzs, i + 1, icao, offset, dst_offset)

\* what the handler does for one matching line: the parsed offsets and the
\* printed record <<code, zone>>, or a panic before anything is printed
line_record(caps, tzs) ==
    LET offset == normalize_offset(caps.utc)
    IN  IF ~offset.ok THEN [panic |-> TRUE]
        ELSE LET dst == dst_offset_of(caps, offset.val)
             IN  IF ~dst.ok THEN [panic |-> TRUE]
                 ELSE LET iana_timezone_opt ==
                              match_timezone(tzs, 1, caps.icao, offset.val, dst.val)
                      IN  [panic |-> FALSE,
                           offset |-> offset.val,
                           dst_offset |-> dst.val,
                           printed |-> <<caps.icao,
                                         IF iana_timezone_opt.some
                                         THEN iana_timezone_opt.val ELSE "?">>]

-----------------------------------------------------------------------------
(* Inputs of SpecMatch *)

DigitChar(d) == CHOOSE c \in Digits : DigitVal(c) = d

RECURSIVE DigitsOf(_)
DigitsOf(n) ==
    IF n < 10 THEN <<DigitChar(n)>>
    ELSE DigitsOf(n \div 10) \o <<DigitChar(n % 10)>>

\* the magnitudes written in the captures: the small ones and the ends of i8
Magnitudes == (0..MaxMagnitude) \cup {I8Max, I8Max + 1}

UtcTexts(mags) == {p \o DigitsOf(n) : p \in NormalPrefixes \ {<<>>, <<" ">>}, n \in mags}
UtcDstTexts(mags) == {p \o DigitsOf(n) : p \in NormalPrefixes, n \in mags}
DstUtcTexts(mags) == {DigitsOf(n) \o s : n \in mags, s \in ReverseSuffixes}

Caps(icaos, mags, dstMags) ==
    {[icao |-> c, utc |-> u, utcdst |-> NoneText, dstutc |-> NoneText] :
        c \in icaos, u \in UtcTexts(mags)}
    \cup {[icao |-> c, utc |-> u, utcdst |-> Some(d), dstutc |-> NoneText] :
        c \in icaos, u \in UtcTexts(mags), d \in UtcDstTexts(dstMags)}
    \cup {[icao |-> c, utc |-> u, utcdst |-> NoneText, dstutc |-> Some(d)] :
        c \in icaos, u \in UtcTexts(mags), d \in DstUtcTexts(dstMags)}

LosAngeles ==
    [icao_match |-> NoneRegex, iana |-> "America/Los_Angeles",
     utc_standard |-> -8, utc_daylight |-> Some(-7)]

DefPool ==
    [icao_match : {NoneRegex, Some({"KSFO"})},
     iana : {"America/Los_Angeles", "Pacific/Honolulu"},
     utc_standard : {-8, -10},
     utc_daylight : {None, Some(-7)}]

Tables(maxLen) == UNION {[1..k -> DefPool] : k \in 0..maxLen}

(* Specification SpecMatch: one matched line against the definitions *)

InitMatch ==
    /\ \/ /\ mTzs = <<LosAngeles>>
          /\ mCaps \in Caps({"KSFO"}, Magnitudes, Magnitudes)
       \/ /\ mTzs \in Tables(MaxDefs)
          /\ mCaps \in Caps({"KSFO", "PHNL"}, {8, 10}, {7})
    /\ mResult = Pending

MatchLine ==
    /\ ~mResult.done
    /\ mResult' = [done |-> TRUE, rec |-> line_record(mCaps, mTzs)]
    /\ UNCHANGED <<mCaps, mTzs, normVars, outlineVars, pagesVars, decodeVars, docVars>>

-----------------------------------------------------------------------------
(* get_top_level_bookmarks (pdf_reading/mod.rs).  The outline list is a     *)
(* record [outlines, first, nodes]: whether the catalog has an outline      *)
(* root, the first entry (0: absent) and the nodes, each with its title, its *)
(* explicit destination, its action and its next link (0: absent).  A title *)
(* is a sequence of text pieces.                                            *)

\* most nodes of an outline list
MaxOutline == 3

ChapterSuffix == ": AIRPORT/FACILITY DIRECTORY"

NoneTitle == [some |-> FALSE, val |-> <<>>]
NoneDest == [some |-> FALSE, val |-> [string |-> FALSE, name |-> ""]]

Named(name) == [kind |-> "Named", name |-> name, page |-> 0]
Page(page) == [kind |-> "Page", name |-> "", page |-> page]

Bookmark(index, title, destination) ==
    [index |-> index, title |-> title, destination |-> destination]

NoneBookmark == [some |-> FALSE, val |-> Bookmark(0, <<>>, Named(""))]

\* the bookmark of a node that every titled node with a go-to action gets,
\* a direct one without a page being given page 0
node_bookmark_pageless(node, len) ==
    IF ~node.title.some THEN Ok(NoneBookmark)
    ELSE IF node.dest.some
    THEN IF ~node.dest.val.string THEN Panicked
         ELSE Ok(Some(Bookmark(len, node.title.val, Named(node.dest.val.name))))
    ELSE IF node.action.kind = "goto_direct"
    THEN Ok(Some(Bookmark(len, node.title.val, Page(node.action.page.val))))
    ELSE IF node.action.kind = "goto_named"
    THEN Ok(Some(Bookmark(len, node.title.val, Named(node.action.name))))
    ELSE Ok(NoneBookmark)

\* bookmark_opt of one loop turn, len being ret.len(); Panicked when the
\* destination is not a string
node_bookmark(node, len) ==
    IF ~node.title.some THEN Ok(NoneBookmark)
    ELSE IF node.dest.some
    THEN IF ~node.dest.val.string THEN Panicked
         ELSE Ok(Some(Bookmark(len, node.title.val, Named(node.dest.val.name))))
    ELSE IF node.action.kind = "goto_direct"
    THEN IF node.action.page.some
         THEN Ok(Some(Bookmark(len, node.title.val, Page(node.action.page.val))))
         ELSE Ok(NoneBookmark)
    ELSE IF node.action.kind = "goto_named"
    THEN Ok(Some(Bookmark(len, node.title.val, Named(node.action.name))))
    ELSE Ok(NoneBookmark)

\* the whole function on a list without a cycle: the bookmarks, or a panic
RECURSIVE walk_outline(_, _, _)
walk_outline(nodes, cur, acc) ==
    LET b == node_bookmark(nodes[cur], Len(acc))
    IN  IF ~b.ok THEN Panicked
        ELSE LET acc2 == IF b.val.some THEN Append(acc, b.val.val) ELSE acc
             IN  IF nodes[cur].next = 0 THEN Ok(acc2)
                 ELSE walk_outline(nodes, nodes[cur].next, acc2)

get_top_level_bookmarks(o) ==
    IF ~o.outlines \/ o.first = 0 THEN Ok(<<>>)
    ELSE walk_outline(o.nodes, o.first, <<>>)

(* Inputs: the shapes a node can have *)

NoAction == [kind |-> "none", page |-> None, name |-> ""]
StringDest(name) == [some |-> TRUE, val |-> [string |-> TRUE, name |-> name]]

Titles == {<<"SECTION 3", ChapterSuffix>>, <<"GENERAL INFORMATION">>}

NodeShapes ==
    \* no title, though a destination
    {[title |-> NoneTitle, dest |-> StringDest("d1"), action |-> NoAction]}
    \* an explicit destination, which goes before any action
    \cup {[title |-> Some(t), dest |-> StringDest("d1"),
           action |-> [kind |-> "goto_direct", page |-> Some(2), name |-> ""]] :
             t \in Titles}
    \* a destination that is no string
    \cup {[title |-> Some(<<"GENERAL INFORMATION">>),
           dest |-> [some |-> TRUE, val |-> [string |-> FALSE, name |-> ""]],
           action |-> NoAction]}
    \* no destination: the action decides
    \cup {[title |-> Some(<<"GENERAL INFORMATION">>), dest |-> NoneDest, action |-> a] :
             a \in {NoAction,
                    [kind |-> "other", page |-> None, name |-> ""],
                    [kind |-> "goto_direct", page |-> Some(1), name |-> ""],
                    [kind |-> "goto_direct", page |-> None, name |-> ""],
                    [kind |-> "goto_named", page |-> None, name |-> "d2"]}}

\* a list of n nodes linked in order; the last one's next link is absent,
\* or, in a malformed document, points back at the first node or at itself
OutlineLists(shapes, maxLen, lastNexts) ==
    {[outlines |-> TRUE, first |-> 1,
      nodes |-> [i \in 1..Len(ns) |->
                    [title |-> ns[i].title, dest |-> ns[i].dest,
                     action |-> ns[i].action,
                     next |-> IF i < Len(ns) THEN i + 1
                              ELSE IF ln = "self" THEN i
                              ELSE IF ln = "first" THEN 1 ELSE 0]]] :
        ns \in UNION {[1..k -> shapes] : k \in 1..maxLen}, ln \in lastNexts}

EmptyOutlines ==
    {[outlines |-> FALSE, first |-> 0, nodes |-> <<>>],
     [outlines |-> TRUE, first |-> 0, nodes |-> <<>>]}

(* Specification SpecOutline: the function, one loop turn at a time *)

InitOutline ==
    /\ outline \in EmptyOutlines
                     \cup OutlineLists(NodeShapes, MaxOutline, {"none", "first", "self"})
    /\ current_outline = 0
    /\ ret = <<>>
    /\ oPc = "start"

\* the two early returns, or resolving the first entry
OutlineStart ==
    /\ oPc = "start"
    /\ IF ~outline.outlines \/ outline.first = 0
       THEN oPc' = "returned" /\ UNCHANGED current_outline
       ELSE oPc' = "loop" /\ current_outline' = outline.first
    /\ UNCHANGED <<outline, ret, normVars, matchVars, pagesVars, decodeVars, docVars>>

\* one turn of a loop that stops at a next link that leads backwards
OutlineVisitForwardOnly ==
    /\ oPc = "loop"
    /\ Len(ret) <= MaxOutline
    /\ LET node == outline.nodes[current_outline]
           b == node_bookmark(node, Len(ret))
       IN  IF ~b.ok
           THEN oPc' = "panic" /\ UNCHANGED <<ret, current_outline>>
           ELSE /\ ret' = IF b.val.some THEN Append(ret, b.val.val) ELSE ret
                /\ IF node.next <= current_outline
                   THEN oPc' = "returned" /\ UNCHANGED current_outline
                   ELSE oPc' = "loop" /\ current_outline' = node.next
    /\ UNCHANGED <<outline, normVars, matchVars, pagesVars, decodeVars, docVars>>

\* one turn of the loop; the turns of a cyclic list are followed until ret
\* holds more bookmarks than the list has nodes
OutlineVisit ==
    /\ oPc = "loop"
    /\ Len(ret) <= MaxOutline
    /\ LET node == outline.nodes[current_outline]
           b == node_bookmark(node, Len(ret))
       IN  IF ~b.ok
           THEN oPc' = "panic" /\ UNCHANGED <<ret, current_outline>>
           ELSE /\ ret' = IF b.val.some THEN Append(ret, b.val.val) ELSE ret
                /\ IF node.next = 0
                   THEN oPc' = "returned" /\ UNCHANGED current_outline
                   ELSE oPc' = "loop" /\ current_outline' = node.next
    /\ UNCHANGED <<outline, normVars, matchVars, pagesVars, decodeVars, docVars>>

-----------------------------------------------------------------------------
(* collect_page_references / get_page_references (pdf_reading/mod.rs).  The  *)
(* page tree is a sequence of nodes, node 1 being the catalog's root; a node *)
(* is a leaf (a page) or a tree with its kids, each kid a node number (the   *)
(* reference).  A page's identity is its node number.                        *)

\* the depth get_page_references starts the recursion with
MaxDepth == 16
\* most nodes of a freely shaped page tree
MaxNodes == 5

\* the guard tripping one level early
too_deep_early(depth) == depth = 1

\* if depth == 0 { panic!("in too deep") }
too_deep(depth) == depth = 0

RECURSIVE collect_page_references(_, _, _, _)
RECURSIVE collect_kids(_, _, _, _, _)

\* the for loop over page_tree.kids from kid i on
collect_kids(nodes, kids, i, refs, depth) ==
    IF i > Len(kids) THEN Ok(refs)
    ELSE IF nodes[kids[i]].leaf
    THEN collect_kids(nodes, kids, i + 1, Append(refs, kids[i]), depth)
    ELSE LET sub == collect_page_references(nodes, kids[i], refs, depth - 1)
         IN  IF ~sub.ok THEN Panicked
             ELSE collect_kids(nodes, kids, i + 1, sub.val, depth)

collect_page_references(nodes, node, refs, depth) ==
    IF too_deep(depth) THEN Panicked
    ELSE collect_kids(nodes, nodes[node].kids, 1, refs, depth)

get_page_references(nodes) == collect_page_references(nodes, 1, <<>>, MaxDepth)

(* Inputs *)

LeafNode == [leaf |-> TRUE, kids |-> <<>>]
TreeNode(kids) == [leaf |-> FALSE, kids |-> kids]

\* every tree of n nodes in which node i > 1 is a kid of an earlier tree
\* node, the kids of a node standing in the order of their numbers
FreeTree(n, isLeaf, parent) ==
    [i \in 1..n |->
        IF i > 1 /\ isLeaf[i] THEN LeafNode
        ELSE TreeNode(SelectSeq([j \in 1..n |-> j],
                                LAMBDA j : j > 1 /\ parent[j] = i))]

FreeParents(n, isLeaf) ==
    {p \in [1..n -> 1..n] :
        /\ p[1] = 1
        /\ \A j \in 2..n : p[j] < j /\ (p[j] = 1 \/ ~isLeaf[p[j]])}

FreeTrees(n) ==
    UNION {{FreeTree(n, isLeaf, parent) : parent \in FreeParents(n, isLeaf)} :
              isLeaf \in [1..n -> BOOLEAN]}

\* a chain of len nested tree nodes and one page (node len + 1) that each of
\* them holds before, after or on both sides of its subtree; the innermost
\* node's subtree link is absent or, in a malformed document, leads back to
\* the root or to itself
ChainKids(i, len, pattern, back) ==
    LET sub == IF i < len THEN <<i + 1>>
               ELSE IF back = "root" THEN <<1>>
               ELSE IF back = "self" THEN <<i>> ELSE <<>>
        page == <<len + 1>>
    IN  IF pattern = "before" THEN page \o sub
        ELSE IF pattern = "after" THEN sub \o page
        ELSE page \o sub \o page

ChainTrees ==
    {[i \in 1..(len + 1) |->
        IF i = len + 1 THEN LeafNode
        ELSE TreeNode(ChainKids(i, len, pattern, back))] :
        len \in 1..(MaxDepth + 2),
        pattern \in {"before", "after", "both"},
        back \in {"none", "root", "self"}}

(* Specification SpecPages: the recursion, one kid at a time *)

InitPages ==
    /\ page_tree \in ChainTrees \cup UNION {FreeTrees(n) : n \in 1..MaxNodes}
    /\ stack = <<>>
    /\ page_refs = <<>>
    /\ pPc = "start"

Top == stack[Len(stack)]
AtKid == pPc = "run" /\ Top.i <= Len(page_tree[Top.node].kids)
Kid == page_tree[Top.node].kids[Top.i]
Advance == [stack EXCEPT ![Len(stack)].i = @ + 1]

\* get_page_references: the empty list and the call on the root
PagesStart ==
    /\ pPc = "start"
    /\ page_refs' = <<>>
    /\ IF too_deep(MaxDepth)
       THEN pPc' = "panic" /\ UNCHANGED stack
       ELSE pPc' = "run" /\ stack' = <<[node |-> 1, i |-> 1, depth |-> MaxDepth]>>
    /\ UNCHANGED <<page_tree, normVars, matchVars, outlineVars, decodeVars, docVars>>

\* the leaf's reference put in front of the list
CollectLeafInFront ==
    /\ AtKid
    /\ page_tree[Kid].leaf
    /\ page_refs' = <<Kid>> \o page_refs
    /\ stack' = Advance
    /\ UNCHANGED <<page_tree, pPc, normVars, matchVars, outlineVars, decodeVars, docVars>>

\* PagesNode::Leaf: only store the reference
CollectLeaf ==
    /\ AtKid
    /\ page_tree[Kid].leaf
    /\ page_refs' = Append(page_refs, Kid)
    /\ stack' = Advance
    /\ UNCHANGED <<page_tree, pPc, normVars, matchVars, outlineVars, decodeVars, docVars>>

\* PagesNode::Tree: the recursive call with depth - 1, which panics at once
\* when that is 0
CollectTree ==
    /\ AtKid
    /\ ~page_tree[Kid].leaf
    /\ IF too_deep(Top.depth - 1)
       THEN pPc' = "panic" /\ UNCHANGED stack
       ELSE /\ stack' = Append(Advance, [node |-> Kid, i |-> 1, depth |-> Top.depth - 1])
            /\ UNCHANGED pPc
    /\ UNCHANGED <<page_tree, page_refs, normVars, matchVars, outlineVars, decodeVars, docVars>>

\* the loop over the kids is over: the call returns
CollectReturn ==
    /\ pPc = "run"
    /\ Top.i > Len(page_tree[Top.node].kids)
    /\ stack' = SubSeq(stack, 1, Len(stack) - 1)
    /\ pPc' = IF Len(stack) = 1 THEN "returned" ELSE "run"
    /\ UNCHANGED <<page_tree, page_refs, normVars, matchVars, outlineVars, decodeVars, docVars>>

-----------------------------------------------------------------------------
(* font_decode (pdf_reading/mod.rs).  A font is a record [to_unicode,        *)
(* encoding]: to_unicode is absent, fails to load, or is a map from 16-bit   *)
(* codes to text; encoding is absent or a base encoding with its differences, *)
(* the (byte, glyph name) pairs in the order the loop meets them.  A table   *)
(* is a function whose domain is the set of bytes it maps.                   *)

\* most (byte, glyph name) pairs of an encoding's differences
MaxDiffs == 2
\* most operand bytes of one decoded string
MaxText == 2

U8Max == 255

\* the built-in tables and NAME_TO_CHARACTER, cut down to the bytes 65, 66
\* and 128 and to four glyph names
STANDARD_ENCODING == (65 :> "A") @@ (66 :> "B")
SYMBOL_ENCODING == (65 :> "u0391") @@ (66 :> "u0392")
MAC_ROMAN_ENCODING == (65 :> "A") @@ (66 :> "B") @@ (128 :> "u00C4")
WIN_ANSI_ENCODING == (65 :> "A") @@ (66 :> "B") @@ (128 :> "u20AC")
NAME_TO_CHARACTER ==
    ("A" :> "A") @@ ("B" :> "B") @@ ("Euro" :> "u20AC") @@ ("Adieresis" :> "u00C4")

SupportedBases ==
    {"StandardEncoding", "SymbolEncoding", "MacRomanEncoding", "WinAnsiEncoding"}
UnsupportedBases == {"MacExpertEncoding", "IdentityH", "None", "Other"}

base_table(base) ==
    CASE base = "StandardEncoding" -> STANDARD_ENCODING
      [] base = "SymbolEncoding" -> SYMBOL_ENCODING
      [] base = "MacRomanEncoding" -> MAC_ROMAN_ENCODING
      [] base = "WinAnsiEncoding" -> WIN_ANSI_ENCODING

\* HashMap::insert
MapInsert(map, k, v) == [x \in DOMAIN map \cup {k} |-> IF x = k THEN v ELSE map[x]]

\* an override that never replaces a mapping the table already has
apply_difference_keep_first(encoding_map, diff) ==
    IF diff.byte > U8Max THEN Panicked
    ELSE IF diff.name \in DOMAIN NAME_TO_CHARACTER /\ diff.byte \notin DOMAIN encoding_map
    THEN Ok(MapInsert(encoding_map, diff.byte, NAME_TO_CHARACTER[diff.name]))
    ELSE Ok(encoding_map)

\* one turn of the loop over encoding.differences
apply_difference(encoding_map, diff) ==
    IF diff.byte > U8Max THEN Panicked
    ELSE IF diff.name \in DOMAIN NAME_TO_CHARACTER
    THEN Ok(MapInsert(encoding_map, diff.byte, NAME_TO_CHARACTER[diff.name]))
    ELSE Ok(encoding_map)

RECURSIVE apply_differences(_, _, _)
apply_differences(encoding_map, differences, i) ==
    IF i > Len(differences) THEN Ok(encoding_map)
    ELSE LET m == apply_difference(encoding_map, differences[i])
         IN  IF ~m.ok THEN Panicked
             ELSE apply_differences(m.val, differences, i + 1)

\* the decode loop: the mapped bytes' characters, the others dropped
RECURSIVE decode_bytes(_, _, _)
decode_bytes(encoding_map, text_bytes, i) ==
    IF i > Len(text_bytes) THEN <<>>
    ELSE (IF text_bytes[i] \in DOMAIN encoding_map
          THEN <<encoding_map[text_bytes[i]]>> ELSE <<>>)
         \o decode_bytes(encoding_map, text_bytes, i + 1)

\* the direct to-Unicode map: two bytes, big endian, per code
RECURSIVE decode_codes(_, _, _)
decode_codes(index_to_unicode, text_bytes, i) ==
    IF i > Len(text_bytes) THEN Ok(<<>>)
    ELSE IF i + 1 > Len(text_bytes) THEN Panicked
    ELSE LET index == text_bytes[i] * 256 + text_bytes[i + 1]
         IN  IF index \notin DOMAIN index_to_unicode THEN Panicked
             ELSE LET rest == decode_codes(index_to_unicode, text_bytes, i + 2)
                  IN  IF ~rest.ok THEN Panicked
                      ELSE Ok(index_to_unicode[index] \o rest.val)

\* Ok(Some(text)), Ok(NoneText) for the function's None, or Panicked
font_decode(current_font_opt, text_bytes) ==
    IF ~current_font_opt.some THEN Ok(NoneText)
    ELSE LET font == current_font_opt.val
         IN  IF font.to_unicode.some
             THEN IF ~font.to_unicode.val.ok THEN Panicked
                  ELSE LET r == decode_codes(font.to_unicode.val.map, text_bytes, 1)
                       IN  IF r.ok THEN Ok(Some(r.val)) ELSE Panicked
             ELSE IF font.encoding.some
             THEN LET encoding == font.encoding.val
                  IN  IF encoding.base \notin SupportedBases THEN Ok(NoneText)
                      ELSE LET m == apply_differences(base_table(encoding.base),
                                                      encoding.differences, 1)
                           IN  IF ~m.ok THEN Panicked
                               ELSE Ok(Some(decode_bytes(m.val, text_bytes, 1)))
             ELSE Ok(NoneText)

(* Inputs *)

NoToUnicode == [some |-> FALSE, val |-> [ok |-> FALSE, map |-> <<>>]]
NoEncoding == [some |-> FALSE, val |-> [base |-> "None", differences |-> <<>>]]
NoFont == [some |-> FALSE, val |-> [to_unicode |-> NoToUnicode, encoding |-> NoEncoding]]

EncodedFont(base, differences) ==
    [to_unicode |-> NoToUnicode,
     encoding |-> Some([base |-> base, differences |-> differences])]

UnicodeFont(ok, map) ==
    [to_unicode |-> Some([ok |-> ok, map |-> map]),
     encoding |-> Some([base |-> "WinAnsiEncoding", differences |-> <<>>])]

Diffs == [byte : {65, 128, U8Max + 1}, name : {"B", "Euro", "foo"}]
DiffLists(maxLen) == UNION {[1..k -> Diffs] : k \in 0..maxLen}
ByteStrings(bytes, maxLen) == UNION {[1..k -> bytes] : k \in 0..maxLen}

(* Specification SpecDecode: one call of font_decode *)

InitDecode ==
    /\ \/ /\ dFont = NoFont
          /\ dText \in ByteStrings({65, 66, 128}, MaxText)
       \/ /\ dFont \in {Some(EncodedFont(b, d)) :
                          b \in SupportedBases, d \in DiffLists(MaxDiffs)}
          /\ dText \in ByteStrings({65, 66, 128}, MaxText)
       \/ /\ dFont \in {Some(EncodedFont(b, <<>>)) : b \in UnsupportedBases}
                          \cup {Some([to_unicode |-> NoToUnicode, encoding |-> NoEncoding])}
          /\ dText \in ByteStrings({65, 66, 128}, MaxText)
       \/ /\ dFont \in {Some(UnicodeFont(TRUE, (65 :> <<"A">>) @@ (66 :> <<"f", "i">>))),
                        Some(UnicodeFont(FALSE, <<>>))}
          /\ dText \in ByteStrings({0, 65, 66}, MaxText + 2)
    /\ dResult = Pending

FontDecode ==
    /\ ~dResult.done
    /\ dResult' = [done |-> TRUE, res |-> font_decode(dFont, dText)]
    /\ UNCHANGED <<dFont, dText, normVars, matchVars, outlineVars, pagesVars, docVars>>

-----------------------------------------------------------------------------
(* Coords and Matrix2D (pdf_reading/mod.rs).  The numbers of a document are *)
(* small integers; a matrix operand that holds a NaN or an infinity is      *)
(* marked finite = FALSE.                                                   *)

Coords(x, y) == [y |-> y, x |-> x]

\* derive(Ord) on Coords: by y, then by x
CoordsLess(p, q) == p.y < q.y \/ (p.y = q.y /\ p.x < q.x)

Matrix2DDefault ==
    [a0 |-> 1, b0 |-> 0, c0 |-> 0,
     a1 |-> 0, b1 |-> 1, c1 |-> 0,
     a2 |-> 0, b2 |-> 0, c2 |-> 1]

\* Op::SetTextMatrix { matrix }
matrix_of(matrix) ==
    [a0 |-> matrix.a, a1 |-> matrix.b, a2 |-> 0,
     b0 |-> matrix.c, b1 |-> matrix.d, b2 |-> 0,
     c0 |-> matrix.e, c1 |-> matrix.f, c2 |-> 1]

apply_to_vector(self, vector) ==
    LET nx == self.a0 * vector.x + self.b0 * vector.y + self.c0
        ny == self.a1 * vector.x + self.b1 * vector.y + self.c1
    IN  Coords(nx, ny)

\* the anchor of a draw operator: the origin mapped, then y negated
draw_coords(matrix) ==
    LET coords == apply_to_vector(matrix, Coords(0, 0))
    IN  Coords(coords.x, -coords.y)

NoneMatrix == [some |-> FALSE, val |-> Matrix2DDefault]

-----------------------------------------------------------------------------
(* The pattern ICAO_AND_UTC (main.rs) on a line.  In the document pass a    *)
(* text is a sequence of pieces, a piece being one character or a run of    *)
(* characters that the pattern takes as a whole: a code in parentheses, the *)
(* word UTC with its signed number, a parenthesised daylight offset.        *)

IcaoPieces == ("(KSFO)" :> "KSFO") @@ ("(PHNL)" :> "PHNL")
UtcPieces ==
    ("UTC-8" :> <<"-", "8">>) @@ ("UTC-10" :> <<"-", "1", "0">>)
        @@ ("UTC+200" :> <<"+", "2", "0", "0">>)
DstPieces ==
    ("(7DT)" :> [utcdst |-> Some(<<"7">>), dstutc |-> NoneText])
        @@ ("(9-DT)" :> [utcdst |-> NoneText, dstutc |-> Some(<<"9", "-">>)])

NoneCaps ==
    [some |-> FALSE,
     val |-> [icao |-> "", utc |-> <<>>, utcdst |-> NoneText, dstutc |-> NoneText]]

\* the leftmost code that has, at least one piece further on, a UTC piece;
\* the greedy ".+" runs to the last UTC piece; the daylight group is the
\* piece right after it
icao_and_utc_captures(line) ==
    LET utcs == {j \in 1..Len(line) : line[j] \in DOMAIN UtcPieces}
        starts == {i \in 1..Len(line) :
                      /\ line[i] \in DOMAIN IcaoPieces
                      /\ \E j \in utcs : j >= i + 2}
    IN  IF starts = {} THEN NoneCaps
        ELSE LET i == CHOOSE a \in starts : \A b \in starts : a <= b
                 j == CHOOSE a \in utcs : \A b \in utcs : b <= a
                 dst == IF j < Len(line) /\ line[j + 1] \in DOMAIN DstPieces
                        THEN DstPieces[line[j + 1]]
                        ELSE [utcdst |-> NoneText, dstutc |-> NoneText]
             IN  Some([icao |-> IcaoPieces[line[i]], utc |-> UtcPieces[line[j]],
                       utcdst |-> dst.utcdst, dstutc |-> dst.dstutc])

-----------------------------------------------------------------------------
(* main (main.rs), for one document.  doc is the document as the pdf crate  *)
(* presents it: the outline list, the named destinations (name -> the page  *)
(* of the destination, an Option), the page tree, the pages (by node        *)
(* number: whether the page has contents and resources, and its fonts by    *)
(* resource name), the configured definitions in iteration order, and       *)
(* whether the content streams hold any operator.                           *)

\* most bookmarks of a document's outline list
MaxBookmarks == 3
\* most fragments drawn in one document
MaxDraws == 2

\* PdfString::to_string: UTF-16 after a byte order mark (an odd number of
\* bytes is an error), else one character per byte
PdfDocChar(b) == CASE b = 65 -> "A" [] b = 66 -> "B" [] OTHER -> "u2022"

RECURSIVE utf16_chars(_, _)
utf16_chars(bytes, i) ==
    IF i > Len(bytes) THEN <<>>
    ELSE <<PdfDocChar(bytes[i] * 256 + bytes[i + 1])>> \o utf16_chars(bytes, i + 2)

pdf_string_to_string(bytes) ==
    IF Len(bytes) >= 2 /\ bytes[1] = 254 /\ bytes[2] = 255
    THEN IF (Len(bytes) % 2) = 1 THEN Panicked
         ELSE Ok(utf16_chars(bytes, 3))
    ELSE Ok([i \in 1..Len(bytes) |-> PdfDocChar(bytes[i])])

\* str::ends_with on a title, the suffix being one piece
ends_with(title, suffix) == Len(title) > 0 /\ title[Len(title)] = suffix

\* iter().position(|pr| pr == page_ref)
position(page_references, page_ref) ==
    LET hits == {i \in 1..Len(page_references) : page_references[i] = page_ref}
    IN  IF hits = {} THEN None
        ELSE Some((CHOOSE i \in hits : \A j \in hits : i <= j) - 1)

\* get_destination_pages, given the pages collected: the names whose
\* destination has a page that is in the list, with that page's index
get_destination_pages(names, page_refs_) ==
    LET kept == {n \in DOMAIN names :
                    names[n].some /\ position(page_refs_, names[n].val).some}
    IN  [n \in kept |-> position(page_refs_, names[n].val).val]

bookmark_destination_to_page_index(destination, destination_pages, page_references) ==
    IF destination.kind = "Named"
    THEN IF destination.name \in DOMAIN destination_pages
         THEN Some(destination_pages[destination.name]) ELSE None
    ELSE position(page_references, destination.page)

\* the chapter bookmark taken to be the last one with the title
last_directory_bookmark(top_level_bookmarks) ==
    LET hits == {i \in 1..Len(top_level_bookmarks) :
                    ends_with(top_level_bookmarks[i].title, ChapterSuffix)}
    IN  IF hits = {} THEN NoneBookmark
        ELSE Some(top_level_bookmarks[CHOOSE i \in hits : \A j \in hits : j <= i])

\* top_level_bookmarks.iter().filter(ends_with).nth(0)
airport_directory_bookmark(top_level_bookmarks) ==
    LET hits == {i \in 1..Len(top_level_bookmarks) :
                    ends_with(top_level_bookmarks[i].title, ChapterSuffix)}
    IN  IF hits = {} THEN NoneBookmark
        ELSE Some(top_level_bookmarks[CHOOSE i \in hits : \A j \in hits : i <= j])

\* main up to the page loop: the reason of the panic, or the loop's bounds
resolve_chapter(d) ==
    LET Fatal(why) == [fatal |-> why, start |-> 0, end |-> 0]
        bookmarks == get_top_level_bookmarks(d.outline)
        refs == get_page_references(d.page_tree)
    IN  IF ~bookmarks.ok THEN Fatal("destination not a string")
        ELSE IF ~refs.ok THEN Fatal("in too deep")
        ELSE
        LET top_level_bookmarks == bookmarks.val
            page_references == refs.val
            destination_pages == get_destination_pages(d.names, page_references)
            bkmk == airport_directory_bookmark(top_level_bookmarks)
        IN  IF ~bkmk.some THEN Fatal("no airport directory bookmark found")
            ELSE
            LET airport_directory_page ==
                    bookmark_destination_to_page_index(
                        bkmk.val.destination, destination_pages, page_references)
                \* top_level_bookmarks.get(index + 1), the list being 0-based
                after_index == bkmk.val.index + 1
            IN  IF ~airport_directory_page.some
                THEN Fatal("airport directory page not found")
                ELSE IF after_index < Len(top_level_bookmarks)
                THEN LET page_after ==
                             bookmark_destination_to_page_index(
                                 top_level_bookmarks[after_index + 1].destination,
                                 destination_pages, page_references)
                     IN  IF ~page_after.some
                         THEN Fatal("page for bookmark after airport directory not found")
                         ELSE [fatal |-> "", start |-> airport_directory_page.val,
                               end |-> page_after.val]
                \* airport directory is the last page: pdf_file.num_pages()
                ELSE [fatal |-> "", start |-> airport_directory_page.val,
                      end |-> Len(page_references)]

\* the entry of coords overwritten by the text
put_text(acc, coords, text) ==
    [p \in DOMAIN acc \cup {coords} |-> IF p = coords THEN text ELSE acc[p]]

\* coordinates_to_text.entry(coords).or_insert_with(String::new).push_str(text)
push_text(acc, coords, text) ==
    [p \in DOMAIN acc \cup {coords} |->
        IF p = coords THEN (IF p \in DOMAIN acc THEN acc[p] ELSE <<>>) \o text
        ELSE acc[p]]

\* the keys of a BTreeMap in iteration order
RECURSIVE sorted_coords(_)
sorted_coords(S) ==
    IF S = {} THEN <<>>
    ELSE LET m == CHOOSE p \in S : \A q \in S \ {p} : CoordsLess(p, q)
         IN  <<m>> \o sorted_coords(S \ {m})

RECURSIVE sorted_numbers(_)
sorted_numbers(S) ==
    IF S = {} THEN <<>>
    ELSE LET m == CHOOSE p \in S : \A q \in S : p <= q
         IN  <<m>> \o sorted_numbers(S \ {m})

\* assemble lines: the texts of the accumulator, in its iteration order,
\* appended to the line of their y
RECURSIVE assemble_lines(_, _, _, _)
assemble_lines(acc, keys, i, lines) ==
    IF i > Len(keys) THEN lines
    ELSE LET y == keys[i].y
             line == IF y \in DOMAIN lines THEN lines[y] ELSE <<>>
         IN  assemble_lines(acc, keys, i + 1,
                 [k \in DOMAIN lines \cup {y} |->
                     IF k = y THEN line \o acc[keys[i]] ELSE lines[k]])

lines_of(acc) == assemble_lines(acc, sorted_coords(DOMAIN acc), 1, <<>>)

\* the loop over lines.values(): the records printed, and whether the loop
\* panicked on a line
RECURSIVE print_lines(_, _, _, _, _, _)
print_lines(lines, ys, i, tzs, page, out) ==
    IF i > Len(ys) THEN [panic |-> FALSE, out |-> out]
    ELSE LET caps == icao_and_utc_captures(lines[ys[i]])
         IN  IF ~caps.some THEN print_lines(lines, ys, i + 1, tzs, page, out)
             ELSE LET rec == line_record(caps.val, tzs)
                  IN  IF rec.panic THEN [panic |-> TRUE, out |-> out]
                      ELSE print_lines(lines, ys, i + 1, tzs, page,
                               Append(out, [page |-> page, y |-> ys[i],
                                            printed |-> rec.printed]))

\* the lines printed in the order of their first draw
print_in_draw_order(lines, tzs, page, out) ==
    LET mine == SelectSeq(drawn, LAMBDA f : f.page = page)
        firsts == SelectSeq([i \in 1..Len(mine) |-> i],
                            LAMBDA i : \A j \in 1..(i - 1) : mine[j].coords.y # mine[i].coords.y)
    IN  print_lines(lines, [k \in 1..Len(firsts) |-> mine[firsts[k]].coords.y],
                    1, tzs, page, out)

\* lines.values() runs over the lines by ascending y
print_page(lines, tzs, page, out) ==
    print_lines(lines, sorted_numbers(DOMAIN lines), 1, tzs, page, out)

(* Inputs: the documents *)

\* a page before a subtree, the subtree's page, a page after it: the pages
\* 2, 4 and 5 have the indices 0, 1 and 2
Tree3 == <<TreeNode(<<2, 3, 5>>), LeafNode, TreeNode(<<4>>), LeafNode, LeafNode>>

\* seventeen nested subtrees
TreeTooDeepChain ==
    [i \in 1..(MaxDepth + 2) |->
        IF i = MaxDepth + 2 THEN LeafNode ELSE TreeNode(<<i + 1>>)]

\* "stray" names a page that is in no page tree, "nopage" no page at all
Names3 ==
    ("d1" :> Some(2)) @@ ("d2" :> Some(4)) @@ ("nopage" :> None) @@ ("stray" :> Some(9))

\* a font with a direct to-Unicode map, and one with a base encoding
FontF1 ==
    UnicodeFont(TRUE,
        (1 :> <<"(KSFO)">>) @@ (2 :> <<" SAN FRANCISCO ">>) @@ (3 :> <<"UTC-8">>)
            @@ (4 :> <<"(7DT)">>) @@ (5 :> <<"(PHNL)">>) @@ (6 :> <<"UTC-10">>)
            @@ (7 :> <<"UTC+200">>) @@ (65 :> <<"A">>))
FontF2 == EncodedFont("StandardEncoding", <<>>)

PageWith(contents, resources, fonts) ==
    [contents |-> contents, resources |-> resources, fonts |-> fonts]

NoPage == PageWith(FALSE, FALSE, <<>>)
BothFonts == ("F1" :> FontF1) @@ ("F2" :> FontF2)
OneFont == ("F1" :> FontF1)

\* the pages of Tree3: page 4 (index 1) is a page like page 5, a page
\* without contents, or a page without resources
Pages3(second) ==
    <<NoPage, PageWith(TRUE, TRUE, BothFonts), NoPage, second, PageWith(TRUE, TRUE, OneFont)>>

Honolulu ==
    [icao_match |-> Some({"PHNL"}), iana |-> "Pacific/Honolulu",
     utc_standard |-> -10, utc_daylight |-> None]

TitledNode(title, dest, action) == [title |-> Some(title), dest |-> dest, action |-> action]
GotoPage(page) == [kind |-> "goto_direct", page |-> page, name |-> ""]

ChapterTitle == <<"SECTION 3", ChapterSuffix>>
OtherTitle == <<"GENERAL INFORMATION">>

DocNodeShapes ==
    {TitledNode(ChapterTitle, StringDest("d1"), NoAction),
     TitledNode(ChapterTitle, NoneDest, GotoPage(Some(4))),
     TitledNode(ChapterTitle, StringDest("missing"), NoAction),
     TitledNode(<<"SECTION 3", ChapterSuffix, " (CONTINUED)">>, StringDest("d1"), NoAction),
     TitledNode(OtherTitle, StringDest("d2"), NoAction),
     TitledNode(OtherTitle, NoneDest, GotoPage(Some(5))),
     TitledNode(OtherTitle, NoneDest, GotoPage(Some(9))),
     TitledNode(OtherTitle, StringDest("nopage"), NoAction),
     TitledNode(OtherTitle, NoneDest, GotoPage(None)),
     [title |-> Some(OtherTitle),
      dest |-> [some |-> TRUE, val |-> [string |-> FALSE, name |-> ""]],
      action |-> NoAction],
     [title |-> NoneTitle, dest |-> StringDest("d1"), action |-> NoAction]}

Document(outline_, names, tree, pages, streams) ==
    [outline |-> outline_, names |-> names, page_tree |-> tree, pages |-> pages,
     time_zones |-> <<LosAngeles, Honolulu>>, streams |-> streams]

\* the documents that differ in their navigation; their content streams
\* hold no operator
NavigationDocs ==
    {Document(o, Names3, Tree3, Pages3(second), FALSE) :
        o \in EmptyOutlines \cup OutlineLists(DocNodeShapes, MaxBookmarks, {"none"}),
        second \in {PageWith(TRUE, TRUE, OneFont), PageWith(FALSE, TRUE, OneFont)}}
    \cup {Document(o, ("d1" :> Some(MaxDepth + 2)), TreeTooDeepChain,
                   [i \in 1..(MaxDepth + 2) |-> PageWith(TRUE, TRUE, OneFont)], FALSE) :
             o \in OutlineLists({TitledNode(ChapterTitle, StringDest("d1"), NoAction)},
                                1, {"none"})}

\* the chapter is the pages 0 and 1, the bookmark after it leads to page 2
ChapterOutline ==
    [outlines |-> TRUE, first |-> 1,
     nodes |-> <<[title |-> Some(ChapterTitle), dest |-> StringDest("d1"),
                  action |-> NoAction, next |-> 2],
                 [title |-> Some(OtherTitle), dest |-> NoneDest,
                  action |-> GotoPage(Some(5)), next |-> 0]>>]

\* the documents whose content streams hold operators
StreamDocs ==
    {Document(ChapterOutline, Names3, Tree3, Pages3(second), TRUE) :
        second \in {PageWith(TRUE, TRUE, OneFont), PageWith(TRUE, FALSE, <<>>)}}

(* the operands of the operators *)

TextMatrices ==
    {[finite |-> TRUE, a |-> 1, b |-> 0, c |-> 0, d |-> 1, e |-> 0, f |-> -1],
     [finite |-> TRUE, a |-> 2, b |-> 0, c |-> 0, d |-> 2, e |-> 1, f |-> 0],
     [finite |-> FALSE, a |-> 1, b |-> 0, c |-> 0, d |-> 1, e |-> 0, f |-> 0]}

FontNames == {"F1", "F2", "F9"}

\* Op::TextDraw: a plain string, and UTF-16 cut short
DrawTexts == {<<65, 66>>, <<254, 255, 0>>}

Spacing == [text |-> FALSE, bytes |-> <<>>]
Text(bytes) == [text |-> TRUE, bytes |-> bytes]

\* Op::TextDrawAdjusted: a whole line, a line in two runs, a line whose
\* offset is no i8, a single letter
DrawArrays ==
    {<<Text(<<0, 1, 0, 2, 0, 3, 0, 4>>)>>,
     <<Text(<<0, 5, 0, 2>>), Spacing, Text(<<0, 6>>)>>,
     <<Text(<<0, 5, 0, 2, 0, 7>>)>>,
     <<Text(<<0, 65>>)>>}

\* the operator last executed on the page, with a font operator's name and a
\* draw operator's operand (an array; the one text of a plain draw)
NoOp == [kind |-> "none", name |-> "", array |-> <<>>]
OpOf(kind) == [kind |-> kind, name |-> "", array |-> <<>>]
DrawOp(kind, array) == [kind |-> kind, name |-> "", array |-> array]

(* Specification Spec: main on one document *)

Init ==
    /\ doc \in NavigationDocs \cup StreamDocs
    /\ pc = "start"
    /\ fatal = ""
    /\ page_index = 0
    /\ page_after_directory = 0
    /\ text_matrix = NoneMatrix
    /\ current_font = NoFont
    /\ coordinates_to_text = <<>>
    /\ output = <<>>
    /\ interpreted = <<>>
    /\ drawn = <<>>
    /\ last_op = NoOp
    /\ in_text_block = FALSE

Panic(why) == pc' = "panic" /\ fatal' = why

PageRefs == get_page_references(doc.page_tree).val
CurrentPage == doc.pages[PageRefs[page_index + 1]]

\* from opening the file to the bounds of the page loop
ResolveChapter ==
    /\ pc = "start"
    /\ LET r == resolve_chapter(doc)
       IN  IF r.fatal # ""
           THEN Panic(r.fatal) /\ UNCHANGED <<page_index, page_after_directory>>
           ELSE /\ pc' = "page"
                /\ page_index' = r.start
                /\ page_after_directory' = r.end
                /\ UNCHANGED fatal
    /\ UNCHANGED <<doc, pageVars, output, interpreted, drawn, last_op, in_text_block,
                   otherVars>>

\* the head of the page loop: the loop ends, the page has no contents and
\* is passed over, or its fonts are collected and its state is set up
NextPage ==
    /\ pc = "page"
    /\ IF page_index >= page_after_directory
       THEN /\ pc' = "done"
            /\ UNCHANGED <<fatal, page_index, interpreted>>
       ELSE /\ interpreted' = Append(interpreted, page_index)
            /\ IF ~CurrentPage.contents
               THEN page_index' = page_index + 1 /\ UNCHANGED <<pc, fatal>>
               ELSE IF ~CurrentPage.resources
               THEN Panic("page has no resources") /\ UNCHANGED page_index
               ELSE pc' = "ops" /\ UNCHANGED <<fatal, page_index>>
    /\ text_matrix' = NoneMatrix
    /\ current_font' = NoFont
    /\ coordinates_to_text' = <<>>
    /\ last_op' = NoOp /\ in_text_block' = FALSE
    /\ UNCHANGED <<doc, page_after_directory, output, drawn, otherVars>>

InStream == pc = "ops" /\ doc.streams

OpBeginText ==
    /\ InStream
    /\ text_matrix' = Some(Matrix2DDefault)
    /\ last_op' = OpOf("BeginText") /\ in_text_block' = TRUE
    /\ UNCHANGED <<doc, pc, fatal, page_index, page_after_directory, current_font,
                   coordinates_to_text, output, interpreted, drawn, otherVars>>

OpEndText ==
    /\ InStream
    /\ text_matrix' = NoneMatrix
    /\ last_op' = OpOf("EndText") /\ in_text_block' = FALSE
    /\ UNCHANGED <<doc, pc, fatal, page_index, page_after_directory, current_font,
                   coordinates_to_text, output, interpreted, drawn, otherVars>>

OpSetTextMatrix ==
    /\ InStream
    /\ \E matrix \in TextMatrices :
          IF ~matrix.finite
          THEN Panic("non-finite number") /\ UNCHANGED text_matrix
          ELSE text_matrix' = Some(matrix_of(matrix)) /\ UNCHANGED <<pc, fatal>>
    /\ last_op' = OpOf("SetTextMatrix") /\ UNCHANGED in_text_block
    /\ UNCHANGED <<doc, page_index, page_after_directory, current_font,
                   coordinates_to_text, output, interpreted, drawn, otherVars>>

Fragment(coords, text) == [page |-> page_index, coords |-> coords, text |-> text]

OpTextDraw ==
    /\ InStream
    /\ Len(drawn) < MaxDraws
    /\ \E text \in DrawTexts :
          /\ LET text_string == pdf_string_to_string(text)
                 coords == draw_coords(text_matrix.val)
             IN  IF text_matrix.some /\ text_string.ok
                 THEN /\ coordinates_to_text' =
                             push_text(coordinates_to_text, coords, text_string.val)
                      /\ drawn' = Append(drawn, Fragment(coords, text_string.val))
                 ELSE UNCHANGED <<coordinates_to_text, drawn>>
          /\ last_op' = DrawOp("TextDraw", <<Text(text)>>) /\ UNCHANGED in_text_block
    /\ UNCHANGED <<doc, pc, fatal, page_index, page_after_directory, text_matrix,
                   current_font, output, interpreted, otherVars>>

\* the font is left unset when the name is unknown
OpTextFontLenient ==
    /\ InStream
    /\ \E name \in FontNames :
          /\ current_font' = IF name \in DOMAIN CurrentPage.fonts
                             THEN Some(CurrentPage.fonts[name]) ELSE NoFont
          /\ last_op' = [kind |-> "TextFont", name |-> name, array |-> <<>>] /\ UNCHANGED in_text_block
    /\ UNCHANGED <<doc, pc, fatal, page_index, page_after_directory, text_matrix,
                   coordinates_to_text, output, interpreted, drawn, otherVars>>

OpTextFont ==
    /\ InStream
    /\ \E name \in FontNames :
          /\ IF name \in DOMAIN CurrentPage.fonts
             THEN current_font' = Some(CurrentPage.fonts[name]) /\ UNCHANGED <<pc, fatal>>
             ELSE Panic("unknown font") /\ UNCHANGED current_font
          /\ last_op' = [kind |-> "TextFont", name |-> name, array |-> <<>>] /\ UNCHANGED in_text_block
    /\ UNCHANGED <<doc, page_index, page_after_directory, text_matrix,
                   coordinates_to_text, output, interpreted, drawn, otherVars>>

\* the loop over the array: the accumulator and the fragments after the
\* elements from i on, or a panic of the decoder
RECURSIVE draw_adjusted(_, _, _, _, _, _)
draw_adjusted(array, i, font, coords, acc, frags) ==
    IF i > Len(array) THEN [panic |-> FALSE, acc |-> acc, frags |-> frags]
    ELSE IF ~array[i].text THEN draw_adjusted(array, i + 1, font, coords, acc, frags)
    ELSE LET text_string == font_decode(font, array[i].bytes)
         IN  IF ~text_string.ok THEN [panic |-> TRUE, acc |-> acc, frags |-> frags]
             ELSE IF ~text_string.val.some
             THEN draw_adjusted(array, i + 1, font, coords, acc, frags)
             ELSE draw_adjusted(array, i + 1, font, coords,
                      push_text(acc, coords, text_string.val.val),
                      Append(frags, Fragment(coords, text_string.val.val)))

OpTextDrawAdjusted ==
    /\ InStream
    /\ Len(drawn) < MaxDraws
    /\ \E array \in DrawArrays :
          /\ IF ~text_matrix.some
             THEN UNCHANGED <<pc, fatal, coordinates_to_text, drawn>>
             ELSE LET r == draw_adjusted(array, 1, current_font,
                                         draw_coords(text_matrix.val),
                                         coordinates_to_text, drawn)
                  IN  /\ coordinates_to_text' = r.acc
                      /\ drawn' = r.frags
                      /\ IF r.panic THEN Panic("decoding failed")
                         ELSE UNCHANGED <<pc, fatal>>
          /\ last_op' = DrawOp("TextDrawAdjusted", array) /\ UNCHANGED in_text_block
    /\ UNCHANGED <<doc, page_index, page_after_directory, text_matrix,
                   current_font, output, interpreted, otherVars>>

OpOther ==
    /\ InStream
    /\ last_op' = OpOf("other") /\ UNCHANGED in_text_block
    /\ UNCHANGED <<doc, pc, fatal, page_index, page_after_directory, pageVars,
                   output, interpreted, drawn, otherVars>>

\* the operators are through: the lines are assembled and matched, the
\* records printed, and the loop goes on to the next page
FinishPage ==
    /\ pc = "ops"
    /\ LET r == print_page(lines_of(coordinates_to_text), doc.time_zones,
                           page_index, output)
       IN  /\ output' = r.out
           /\ IF r.panic
              THEN Panic("offset is no i8") /\ UNCHANGED <<page_index, pageVars>>
              ELSE /\ pc' = "page"
                   /\ page_index' = page_index + 1
                   /\ text_matrix' = NoneMatrix
                   /\ current_font' = NoFont
                   /\ coordinates_to_text' = <<>>
                   /\ UNCHANGED fatal
    /\ last_op' = NoOp /\ in_text_block' = FALSE
    /\ UNCHANGED <<doc, page_after_directory, interpreted, drawn, otherVars>>

-----------------------------------------------------------------------------
(* Specifications *)

NormIdle == nText = <<>> /\ nForm = "idle" /\ nResult = Pending
MatchIdle == mCaps = <<>> /\ mTzs = <<>> /\ mResult = Pending
OutlineIdle == outline = <<>> /\ current_outline = 0 /\ ret = <<>> /\ oPc = "idle"
PagesIdle == page_tree = <<>> /\ stack = <<>> /\ page_refs = <<>> /\ pPc = "idle"
DecodeIdle == dFont = <<>> /\ dText = <<>> /\ dResult = Pending
DocIdle ==
    /\ doc = <<>> /\ pc = "idle" /\ fatal = "" /\ page_index = 0
    /\ page_after_directory = 0 /\ text_matrix = NoneMatrix /\ current_font = NoFont
    /\ coordinates_to_text = <<>> /\ output = <<>> /\ interpreted = <<>>
    /\ drawn = <<>> /\ last_op = NoOp /\ in_text_block = FALSE

NormInit == InitNorm /\ MatchIdle /\ OutlineIdle /\ PagesIdle /\ DecodeIdle /\ DocIdle
NextNorm == NormalizeOffset \/ NormalizeReverseOffset
SpecNorm == NormInit /\ [][NextNorm]_vars

MatchInit == InitMatch /\ NormIdle /\ OutlineIdle /\ PagesIdle /\ DecodeIdle /\ DocIdle
NextMatch == MatchLine
SpecMatch == MatchInit /\ [][NextMatch]_vars

OutlineInit == InitOutline /\ NormIdle /\ MatchIdle /\ PagesIdle /\ DecodeIdle /\ DocIdle
NextOutline == OutlineStart \/ OutlineVisit
SpecOutline == OutlineInit /\ [][NextOutline]_vars
\* the loop is sequential code: it takes its next turn whenever it has one
SpecOutlineFair == OutlineInit /\ [][NextOutline]_vars /\ WF_vars(NextOutline)

\* the traversal is one thread of straight-line code: whenever it can take a
\* step it does
PagesInit == InitPages /\ NormIdle /\ MatchIdle /\ OutlineIdle /\ DecodeIdle /\ DocIdle
NextPages == PagesStart \/ CollectLeaf \/ CollectTree \/ CollectReturn
SpecPages == PagesInit /\ [][NextPages]_vars /\ WF_vars(NextPages)

DocInit == Init /\ NormIdle /\ MatchIdle /\ OutlineIdle /\ PagesIdle /\ DecodeIdle
Next ==
    \/ ResolveChapter \/ NextPage
    \/ OpBeginText \/ OpEndText \/ OpSetTextMatrix \/ OpTextDraw
    \/ OpTextFont \/ OpTextDrawAdjusted \/ OpOther
    \/ FinishPage
Spec == DocInit /\ [][Next]_vars

DecodeInit == InitDecode /\ NormIdle /\ MatchIdle /\ OutlineIdle /\ PagesIdle /\ DocIdle
NextDecode == FontDecode
SpecDecode == DecodeInit /\ [][NextDecode]_vars

-----------------------------------------------------------------------------
(* Properties *)

IsDigit(c) == c \in Digits

\* the number a digit string denotes
RECURSIVE ValueOf(_)
ValueOf(d) ==
    IF Len(d) = 0 THEN 0
    ELSE 10 * ValueOf(SubSeq(d, 1, Len(d) - 1)) + DigitVal(d[Len(d)])

\* the number a signed text denotes, the sign leading or trailing
SignedValue(text) ==
    LET n == ValueOf(SelectSeq(text, IsDigit))
    IN  IF \E i \in 1..Len(text) : text[i] \in {"-", EnDash} THEN -n ELSE n

\* C3: the printed zone is the iana of the first definition, in iteration
\* order, whose icao_match is absent or matches the code and whose standard
\* and daylight offsets equal the parsed ones (absent equal to absent only);
\* with no such definition the record is "<CODE> ?".
C3_FirstMatchWins ==
    (mResult.done /\ ~mResult.rec.panic) =>
        LET r == mResult.rec
            Q(i) == /\ mTzs[i].icao_match.some => mCaps.icao \in mTzs[i].icao_match.val
                    /\ mTzs[i].utc_standard = r.offset
                    /\ mTzs[i].utc_daylight.some = r.dst_offset.some
                    /\ r.dst_offset.some => mTzs[i].utc_daylight.val = r.dst_offset.val
            hits == {i \in 1..Len(mTzs) : Q(i)}
        IN  IF hits = {} THEN r.printed = <<mCaps.icao, "?">>
            ELSE \E i \in hits :
                    /\ \A j \in hits : i <= j
                    /\ r.printed = <<mCaps.icao, mTzs[i].iana>>

\* a definition with equal offsets but a non-matching icao_match is passed
\* over for a later one
C3_Witness ==
    /\ mResult.done /\ ~mResult.rec.panic
    /\ Len(mTzs) = 2
    /\ mCaps.icao = "PHNL"
    /\ mTzs[1].icao_match = Some({"KSFO"})
    /\ mTzs[1].utc_standard = mResult.rec.offset
    /\ mTzs[1].utc_daylight = mResult.rec.dst_offset
    /\ mTzs[1].iana = "America/Los_Angeles"
    /\ mTzs[2].icao_match = NoneRegex
    /\ mTzs[2].iana = "Pacific/Honolulu"
    /\ mResult.rec.printed = <<"PHNL", "Pacific/Honolulu">>

\* C4: the daylight offset used for matching is -d when s < -2 and d > 2 and
\* d otherwise, for a normally-signed daylight text; a reversed text keeps
\* its value; an absent one stays absent.
C4_CorrectionRule ==
    (mResult.done /\ ~mResult.rec.panic) =>
        LET s == SignedValue(mCaps.utc)
            got == mResult.rec.dst_offset
        IN  /\ mResult.rec.offset = s
            /\ mCaps.utcdst.some =>
                   LET d == SignedValue(mCaps.utcdst.val)
                   IN  got = Some(IF s < -2 /\ d > 2 THEN -d ELSE d)
            /\ (~mCaps.utcdst.some /\ mCaps.dstutc.some) =>
                   got = Some(SignedValue(mCaps.dstutc.val))
            /\ (~mCaps.utcdst.some /\ ~mCaps.dstutc.some) => got = None

\* standard -7 with daylight "5" gives -5
C4_Witness ==
    /\ mResult.done /\ ~mResult.rec.panic
    /\ mCaps.utc = <<"-", "7">>
    /\ mCaps.utcdst = Some(<<"5">>)
    /\ mResult.rec.dst_offset = Some(-5)

\* C5: "-D" and "<en dash>D" give -n; "+D", " D" and "D" give n; the
\* reversed forms "D-" and "D<en dash>" give -n and "D+" gives n, for every
\* digit string D of value n in 0..127.
C5_Normalization ==
    nResult.done =>
        LET D == SelectSeq(nText, IsDigit)
            n == ValueOf(D)
            neg == {<<"-">>, <<EnDash>>}
            pos == {<<"+">>, <<" ">>, <<>>}
        IN  n <= I8Max =>
              /\ (nForm = "normal" /\ \E p \in neg : nText = p \o D)
                     => nResult.res = Ok(-n)
              /\ (nForm = "normal" /\ \E p \in pos : nText = p \o D)
                     => nResult.res = Ok(n)
              /\ (nForm = "reverse" /\ \E q \in neg : nText = D \o q)
                     => nResult.res = Ok(-n)
              /\ (nForm = "reverse" /\ nText = D \o <<"+">>)
                     => nResult.res = Ok(n)

\* "12" followed by an en dash gives -12
C5_Witness ==
    /\ nResult.done
    /\ nForm = "reverse"
    /\ nText = <<"1", "2", EnDash>>
    /\ nResult.res = Ok(-12)

\* whether the claim has a node emit a bookmark
EmitsBookmark(node) ==
    /\ node.title.some
    /\ \/ node.dest.some
       \/ node.action.kind = "goto_named"
       \/ node.action.kind = "goto_direct" /\ node.action.page.some

\* C6: the bookmarks returned are those of the emitting nodes, in list
\* order, and result[i].index = i (zero-based); nodes without a title,
\* without destination and action, with another action or with a direct
\* go-to action without a page emit nothing and take no index; an absent
\* outline root or first entry gives the empty list.
C6_BookmarkIndexIsPosition ==
    /\ \A i \in 1..Len(ret) : ret[i].index = i - 1
    /\ oPc = "returned" =>
        LET nodes == outline.nodes
            Emits(i) == EmitsBookmark(nodes[i])
            E == SelectSeq([i \in 1..Len(nodes) |-> i], Emits)
        IN  /\ Len(ret) = Len(E)
            /\ \A i \in 1..Len(E) :
                  /\ ret[i].title = nodes[E[i]].title.val
                  /\ ret[i].destination =
                        IF nodes[E[i]].dest.some
                        THEN Named(nodes[E[i]].dest.val.name)
                        ELSE IF nodes[E[i]].action.kind = "goto_named"
                        THEN Named(nodes[E[i]].action.name)
                        ELSE Page(nodes[E[i]].action.page.val)

\* a page-less direct action and an untitled node before the only bookmark
C6_Witness ==
    /\ oPc = "returned"
    /\ Len(outline.nodes) = 3
    /\ outline.nodes[1].action.kind = "goto_direct"
    /\ ~outline.nodes[1].dest.some
    /\ ~outline.nodes[1].action.page.some
    /\ ~outline.nodes[2].title.some
    /\ outline.nodes[3].action.kind = "goto_named"
    /\ ret = <<Bookmark(0, <<"GENERAL INFORMATION">>, Named("d2"))>>

\* the pages below a node, left to right
RECURSIVE LeafOrder(_, _)
RECURSIVE LeafOrderOfKids(_, _, _)
LeafOrderOfKids(nodes, kids, i) ==
    IF i > Len(kids) THEN <<>>
    ELSE LeafOrder(nodes, kids[i]) \o LeafOrderOfKids(nodes, kids, i + 1)
LeafOrder(nodes, node) ==
    IF nodes[node].leaf THEN <<node>>
    ELSE LeafOrderOfKids(nodes, nodes[node].kids, 1)

\* the subtree nodes among the kids of the tree nodes in S
TreeKids(nodes, S) ==
    {n \in 1..Len(nodes) :
        /\ ~nodes[n].leaf
        /\ \E m \in S : \E j \in 1..Len(nodes[m].kids) : nodes[m].kids[j] = n}

\* the tree nodes at nesting level k, S being those at level 1 (the root)
RECURSIVE TreesAtLevel(_, _, _)
TreesAtLevel(nodes, k, S) ==
    IF k = 1 THEN S ELSE TreesAtLevel(nodes, k - 1, TreeKids(nodes, S))

\* C7: the list returned holds the leaf pages, once per occurrence, in
\* left-to-right depth-first order, and the function computes the same list
\* as its recursion unrolled; a page's index is its position in the list.
C7_DepthFirstLeafOrder ==
    pPc = "returned" =>
        /\ page_refs = LeafOrder(page_tree, 1)
        /\ get_page_references(page_tree) = Ok(page_refs)
        /\ \A i \in 1..Len(page_refs) : page_tree[page_refs[i]].leaf

\* a page before a subtree, the subtree's page, and a page after it
C7_Witness ==
    /\ pPc = "returned"
    /\ Len(page_tree) = 5
    /\ page_tree[1].kids = <<2, 3, 5>>
    /\ page_tree[3].kids = <<4>>
    /\ page_refs = <<2, 4, 5>>

Deepest == TreesAtLevel(page_tree, MaxDepth + 1, {1})

\* C8: the collection ends, on a cyclic tree too; it ends in TreeTooDeep
\* exactly when some subtree node lies at nesting level 17 or deeper.
C8_TerminatesWithinDepth ==
    /\ <>(pPc \in {"returned", "panic"})
    /\ [](pPc = "panic" => Deepest # {})
    /\ [](pPc = "returned" => Deepest = {})

\* a cyclic tree has ended in TreeTooDeep after sixteen pages
C8_Witness ==
    /\ pPc = "panic"
    /\ page_tree[1].kids = <<2, 1>>
    /\ Len(page_refs) = MaxDepth

\* sixteen nested levels are returned in full
C8_WitnessDeep ==
    /\ pPc = "returned"
    /\ Len(page_tree) = MaxDepth + 1
    /\ Len(page_refs) = MaxDepth

\* the last override of byte b with a known glyph name, 0 when there is none
LastOverride(differences, b) ==
    LET hits == {i \in 1..Len(differences) :
                    /\ differences[i].byte = b
                    /\ differences[i].name \in DOMAIN NAME_TO_CHARACTER}
    IN  IF hits = {} THEN 0 ELSE CHOOSE i \in hits : \A j \in hits : j <= i

\* the character the claim gives byte b, "" when b is unmapped
EffectiveChar(base, differences, b) ==
    LET i == LastOverride(differences, b)
    IN  IF i # 0 THEN NAME_TO_CHARACTER[differences[i].name]
        ELSE IF b \in DOMAIN base_table(base) THEN base_table(base)[b]
        ELSE ""

Permuted(seq, perm) == [i \in 1..Len(seq) |-> seq[perm[i]]]
IndexPermutations(n) == {f \in [1..n -> 1..n] : \A i, j \in 1..n : f[i] = f[j] => i = j}

\* C9: with a supported base encoding the text returned is, byte by byte in
\* input order, the character of the last override of that byte whose glyph
\* name is known, else the base table's character, unmapped bytes being
\* dropped without error; overrides of distinct bytes give the same map in
\* every order.
C9_BaseEncodingDecoding ==
    (/\ dResult.done
     /\ dFont.some
     /\ ~dFont.val.to_unicode.some
     /\ dFont.val.encoding.some
     /\ dFont.val.encoding.val.base \in SupportedBases
     /\ \A i \in 1..Len(dFont.val.encoding.val.differences) :
            dFont.val.encoding.val.differences[i].byte <= U8Max) =>
        LET base == dFont.val.encoding.val.base
            differences == dFont.val.encoding.val.differences
            Mapped(i) == EffectiveChar(base, differences, dText[i]) # ""
            kept == SelectSeq([i \in 1..Len(dText) |-> i], Mapped)
        IN  /\ dResult.res =
                 Ok(Some([k \in 1..Len(kept) |->
                             EffectiveChar(base, differences, dText[kept[k]])]))
            /\ (\A i, j \in 1..Len(differences) :
                    differences[i].byte = differences[j].byte => i = j)
               => \A perm \in IndexPermutations(Len(differences)) :
                     apply_differences(base_table(base), Permuted(differences, perm), 1)
                         = apply_differences(base_table(base), differences, 1)

\* byte 128 is unmapped in the standard table, overridden twice (the later
\* override wins) and an override with an unknown name leaves 65 alone
C9_Witness ==
    /\ dResult.done
    /\ dFont = Some(EncodedFont("StandardEncoding",
                                <<[byte |-> 128, name |-> "B"],
                                  [byte |-> 128, name |-> "Euro"]>>))
    /\ dText = <<128, 65>>
    /\ dResult.res = Ok(Some(<<"u20AC", "A">>))

-----------------------------------------------------------------------------
(* The document pass *)

\* the page indices a destination resolves to: none, or one
PageIndexOf(destination) ==
    LET target == IF destination.kind = "Named"
                  THEN IF destination.name \in DOMAIN doc.names
                       THEN doc.names[destination.name] ELSE None
                  ELSE Some(destination.page)
        at == {i \in 1..Len(PageRefs) : target.some /\ PageRefs[i] = target.val}
    IN  {i - 1 : i \in {j \in at : \A k \in at : j <= k}}

BookmarkList == get_top_level_bookmarks(doc.outline).val
ChapterPositions ==
    {k \in 1..Len(BookmarkList) : ends_with(BookmarkList[k].title, ChapterSuffix)}
ChapterPosition == CHOOSE k \in ChapterPositions : \A j \in ChapterPositions : k <= j

\* what makes the pass fatal before any page
NoRange ==
    \/ ~get_top_level_bookmarks(doc.outline).ok
    \/ ~get_page_references(doc.page_tree).ok
    \/ ChapterPositions = {}
    \/ PageIndexOf(BookmarkList[ChapterPosition].destination) = {}
    \/ /\ ChapterPosition < Len(BookmarkList)
       /\ PageIndexOf(BookmarkList[ChapterPosition + 1].destination) = {}

RangeStart == CHOOSE i \in PageIndexOf(BookmarkList[ChapterPosition].destination) : TRUE
RangeEnd ==
    IF ChapterPosition < Len(BookmarkList)
    THEN CHOOSE i \in PageIndexOf(BookmarkList[ChapterPosition + 1].destination) : TRUE
    ELSE Len(PageRefs)
RangeLength == IF RangeEnd <= RangeStart THEN 0 ELSE RangeEnd - RangeStart

\* C1: the pages interpreted are start, start+1, ..., end-1, each once and
\* in increasing order, start being the page of the first bookmark whose
\* title ends with the chapter suffix and end the page of the bookmark after
\* it in the list, or the page count when it is the last; no page when
\* end <= start; a missing chapter bookmark or an unresolvable start or end
\* is fatal and nothing is printed; the destinations of the other bookmarks
\* do not enter.  While the pass is running the pages interpreted are a
\* prefix of the range, and the whole range once it is done.
C1_PageRange ==
    pc # "start" =>
        IF NoRange
        THEN pc = "panic" /\ interpreted = <<>> /\ output = <<>>
        ELSE /\ Len(interpreted) <= RangeLength
             /\ \A i \in 1..Len(interpreted) : interpreted[i] = RangeStart + i - 1
             /\ pc = "done" => Len(interpreted) = RangeLength
             /\ \A i \in 1..Len(output) : output[i].page \in RangeStart..(RangeEnd - 1)

\* the pass is done with a range of two pages, though a bookmark that is
\* neither the chapter's nor the one after it resolves to no page
C1_Witness ==
    /\ pc = "done"
    /\ interpreted = <<0, 1>>
    /\ \E k \in 1..Len(BookmarkList) :
          /\ k \notin {ChapterPosition, ChapterPosition + 1}
          /\ PageIndexOf(BookmarkList[k].destination) = {}

\* the place of a line's first fragment among the fragments drawn
FirstDraw(page, y) ==
    LET at == {i \in 1..Len(drawn) : drawn[i].page = page /\ drawn[i].coords.y = y}
    IN  CHOOSE i \in at : \A j \in at : i <= j

\* C2 as the specification states it: pages in increasing order and, within
\* a page, the records in the order in which the first fragment of each line
\* was drawn
C2_DrawOrder ==
    \A i, j \in 1..Len(output) :
        i < j =>
            /\ output[i].page <= output[j].page
            /\ output[i].page = output[j].page =>
                   FirstDraw(output[i].page, output[i].y)
                       < FirstDraw(output[j].page, output[j].y)

\* C2: one record per line that yields one, pages in increasing order and,
\* within a page, the records by ascending y of their line (y being the
\* negated vertical position of the line), whatever the order in which the
\* lines were drawn
C2_OutputOrder ==
    \A i, j \in 1..Len(output) :
        i < j =>
            /\ output[i].page <= output[j].page
            /\ output[i].page = output[j].page => output[i].y < output[j].y

\* two records of one page, the line of the second drawn before the line of
\* the first
C2_Witness ==
    \E i, j \in 1..Len(output) :
        /\ i < j
        /\ output[i].page = output[j].page
        /\ FirstDraw(output[j].page, output[j].y) < FirstDraw(output[i].page, output[i].y)

\* C10: a set-font operator whose name is not among the page's fonts is
\* fatal, and no record of that page or a later one is printed, then or
\* later; one whose name is among them sets current_font to that font and
\* leaves text_matrix and coordinates_to_text as they were
C10_UnknownFontIsFatal ==
    /\ [](last_op.kind = "TextFont" =>
             IF last_op.name \in DOMAIN CurrentPage.fonts
             THEN /\ pc = "ops"
                  /\ current_font = Some(CurrentPage.fonts[last_op.name])
             ELSE /\ pc = "panic"
                  /\ fatal = "unknown font"
                  /\ \A i \in 1..Len(output) : output[i].page < page_index)
    /\ [][/\ last_op'.kind = "TextFont" =>
                UNCHANGED <<text_matrix, coordinates_to_text>>
          /\ fatal' = "unknown font" => output' = output]_vars

\* an unknown name met on the second page, after the first page's record
C10_Witness ==
    /\ last_op.kind = "TextFont"
    /\ last_op.name \notin DOMAIN CurrentPage.fonts
    /\ pc = "panic"
    /\ page_index = 1
    /\ output # <<>>

\* a known name met in a text object that has drawn a fragment
C10_WitnessKnown ==
    /\ last_op.kind = "TextFont"
    /\ last_op.name = "F2"
    /\ pc = "ops"
    /\ text_matrix.some
    /\ coordinates_to_text # <<>>

\* what the decoder makes of the operand of a draw: the accumulator after
\* every text of the array is decoded with the font and appended at coords
DecodedInto(array, font, coords, acc) == draw_adjusted(array, 1, font, coords, acc, <<>>)

IsDraw(op) == op.kind \in {"TextDraw", "TextDrawAdjusted"}

\* C11: for both draw operators the text appended to the accumulator is what
\* font_decode makes of the operand bytes with the current font; a draw
\* executed while no font is set appends nothing
C11_DrawsUseDecoder ==
    [][(IsDraw(last_op') /\ text_matrix.some) =>
          LET r == DecodedInto(last_op'.array, current_font,
                               draw_coords(text_matrix.val), coordinates_to_text)
          IN  /\ ~r.panic => coordinates_to_text' = r.acc
              /\ ~current_font.some => coordinates_to_text' = coordinates_to_text]_vars

\* C11 as the code has it: the adjusted draw appends what font_decode makes
\* of each text of its array, and nothing without a font; the plain draw
\* appends the operand read as a text string, whatever the font
C11_OnlyAdjustedDrawUsesDecoder ==
    [][(IsDraw(last_op') /\ text_matrix.some) =>
          IF last_op'.kind = "TextDrawAdjusted"
          THEN LET r == DecodedInto(last_op'.array, current_font,
                                    draw_coords(text_matrix.val), coordinates_to_text)
               IN  /\ ~r.panic => coordinates_to_text' = r.acc
                   /\ ~current_font.some => coordinates_to_text' = coordinates_to_text
          ELSE LET text_string == pdf_string_to_string(last_op'.array[1].bytes)
               IN  coordinates_to_text' =
                       IF text_string.ok
                       THEN push_text(coordinates_to_text, draw_coords(text_matrix.val),
                                      text_string.val)
                       ELSE coordinates_to_text]_vars

\* a plain draw has appended its text though no font is set
C11_Witness ==
    /\ last_op.kind = "TextDraw"
    /\ ~current_font.some
    /\ coordinates_to_text # <<>>

\* C12: text_matrix is absent whenever the interpreter is outside a text
\* object, before the first begin-text and from an end-text to the next
\* begin-text, so that a draw outside a text object is a no-op
C12_NoMatrixOutsideTextBlock ==
    (pc = "ops" /\ ~in_text_block) => ~text_matrix.some

\* C12 as the code has it: text_matrix is present exactly from a begin-text
\* or a set-text-matrix to the next end-text; outside a text object it is
\* absent until a set-text-matrix is met
C12_MatrixSetByTm ==
    [][/\ last_op'.kind \in {"BeginText", "SetTextMatrix"} /\ pc' = "ops" => text_matrix'.some
       /\ last_op'.kind = "EndText" => ~text_matrix'.some
       /\ last_op'.kind \in {"TextDraw", "TextDrawAdjusted", "TextFont", "other"} =>
              text_matrix' = text_matrix
       /\ (IsDraw(last_op') /\ ~text_matrix.some) =>
              coordinates_to_text' = coordinates_to_text]_vars

\* a draw outside any text object, after a set-text-matrix, has appended text
C12_Witness ==
    /\ last_op = DrawOp("TextDraw", <<Text(<<65, 66>>)>>)
    /\ ~in_text_block
    /\ text_matrix.some
    /\ coordinates_to_text # <<>>

\* the fragments drawn on the current page, in operator order
PageFragments == SelectSeq(drawn, LAMBDA f : f.page = page_index)

\* the texts of a sequence of fragments, one after the other
RECURSIVE TextOf(_)
TextOf(frags) == IF frags = <<>> THEN <<>> ELSE Head(frags).text \o TextOf(Tail(frags))

\* the fragments anchored at (x, y), in operator order
TextAt(x, y) == TextOf(SelectSeq(PageFragments, LAMBDA f : f.coords = Coords(x, y)))

\* the texts at y, by ascending x
RECURSIVE TextAcross(_, _)
TextAcross(xs, y) ==
    IF xs = {} THEN <<>>
    ELSE LET x == CHOOSE a \in xs : \A b \in xs : a <= b
         IN  TextAt(x, y) \o TextAcross(xs \ {x}, y)

LineAt(y) ==
    TextAcross({PageFragments[i].coords.x :
                   i \in {j \in 1..Len(PageFragments) : PageFragments[j].coords.y = y}}, y)

\* C13: the lines of a page are one per distinct y among the fragments drawn,
\* and the line of y is the fragments anchored at that y by ascending x,
\* fragments of one position in operator order; so every fragment is in
\* exactly one line, once
C13_LineReconstruction ==
    pc = "ops" =>
        LET lines == lines_of(coordinates_to_text)
        IN  /\ DOMAIN lines = {PageFragments[i].coords.y : i \in 1..Len(PageFragments)}
            /\ \A y \in DOMAIN lines : lines[y] = LineAt(y)

\* a line of two fragments, the right one drawn first, and a line of two
\* fragments of one position
C13_Witness ==
    /\ pc = "ops"
    /\ Len(PageFragments) >= 2
    /\ \E i, j \in 1..Len(PageFragments) :
          /\ i < j
          /\ PageFragments[i].coords.y = PageFragments[j].coords.y
          /\ PageFragments[j].coords.x < PageFragments[i].coords.x
          /\ PageFragments[i].text # PageFragments[j].text

\* two fragments of one position
C13_WitnessSamePosition ==
    /\ pc = "ops"
    /\ \E i, j \in 1..Len(PageFragments) :
          /\ i < j
          /\ PageFragments[i].coords = PageFragments[j].coords
          /\ PageFragments[i].text # PageFragments[j].text

\* the node reached from node i by k next links (0: the list has ended)
RECURSIVE NthNext(_, _)
NthNext(i, k) ==
    IF k = 0 \/ i = 0 THEN i ELSE NthNext(outline.nodes[i].next, k - 1)

HasEntries == outline.outlines /\ outline.first # 0

\* following the next links from the first entry never ends
Cyclic == HasEntries /\ NthNext(outline.first, Len(outline.nodes)) # 0

\* a titled node whose explicit destination is no string: the loop panics
NotAString(i) ==
    LET node == outline.nodes[i]
    IN  node.title.some /\ node.dest.some /\ ~node.dest.val.string

PanicsSomewhere ==
    HasEntries /\ \E k \in 0..(Len(outline.nodes) - 1) :
        NthNext(outline.first, k) # 0 /\ NotAString(NthNext(outline.first, k))

Ended == oPc \in {"returned", "panic"}

C14_WitnessLoop ==
    /\ Cyclic
    /\ ~PanicsSomewhere
    /\ oPc = "loop"
    /\ current_outline = Len(outline.nodes)
    /\ Len(ret) > Len(outline.nodes)

\* the lines of the current page that match the pattern
MatchingLines ==
    LET lines == lines_of(coordinates_to_text)
    IN  {y \in DOMAIN lines : icao_and_utc_captures(lines[y]).some}

\* the step from the last operator of a page to its records
PageEnds == pc = "ops" /\ last_op' = NoOp

\* C15: every line that matches the pattern gives exactly one record and
\* every other line none, without a failure: whatever offset text the
\* pattern captures, its normalisation is a value of -128..127 and does not
\* abort the pass
C15_EveryMatchGivesARecord ==
    [][PageEnds =>
          /\ pc' = "page"
          /\ Len(output') = Len(output) + Cardinality(MatchingLines)
          /\ \A y \in MatchingLines :
                LET offset == normalize_offset(
                                  icao_and_utc_captures(
                                      lines_of(coordinates_to_text)[y]).val.utc)
                IN  offset.ok /\ offset.val \in I8Min..I8Max]_vars

\* C15 as the code has it: a page whose matching lines all hold offsets of
\* -128..127 gives one record per matching line; a matching line whose
\* offset is not an i8 aborts the pass, the lines above it being printed
C15_OffsetOutOfRangeAborts ==
    [][PageEnds =>
          LET lines == lines_of(coordinates_to_text)
              bad == {y \in MatchingLines :
                         line_record(icao_and_utc_captures(lines[y]).val,
                                     doc.time_zones).panic}
          IN  IF bad = {}
              THEN /\ pc' = "page"
                   /\ Len(output') = Len(output) + Cardinality(MatchingLines)
              ELSE /\ pc' = "panic"
                   /\ Len(output') = Len(output) + Cardinality(
                          {y \in MatchingLines : \A b \in bad : y < b})]_vars

\* the pass has aborted on a line that matches the pattern with an offset
\* of three digits
C15_Witness ==
    /\ pc = "panic"
    /\ \E y \in MatchingLines :
          LET caps == icao_and_utc_captures(lines_of(coordinates_to_text)[y]).val
          IN  /\ Len(caps.utc) = 4
              /\ ~normalize_offset(caps.utc).ok

====
